---- MODULE Spec2Model ----
(* The receipt pipeline of doc_processor_agent: a SequentialAgent that runs  *)
(* ocr_extractor_agent, category_classifier_agent and finance_logger_agent   *)
(* in that order on one session, the Receipt schema that guards the stage    *)
(* boundaries, and the log_expense_to_bigquery tool with the data-store      *)
(* client it drives.                                                         *)
EXTENDS Naturals, Sequences, FiniteSets, TLC

(***************************************************************************)
(* Bounds                                                                  *)
(***************************************************************************)
\* Number of pipeline runs (sessions) that execute concurrently.
NumRuns == 2

Runs == 1..NumRuns

(***************************************************************************)
(* JSON values.  A value is a one-field record whose field name is its     *)
(* type: [str |-> s], [num |-> n], [list |-> seq], [null |-> TRUE].  A     *)
(* dict is a function from a set of keys to values.  Amounts are in cents. *)
(***************************************************************************)
IsStr(v) == DOMAIN v = {"str"}
IsNum(v) == DOMAIN v = {"num"}
IsList(v) == DOMAIN v = {"list"}
IsNull(v) == DOMAIN v = {"null"}
Null == [null |-> TRUE]
EmptyDict == [k \in {} |-> Null]

\* Text that pydantic's lax mode parses as a number, with the number it yields.
NumericStrings == {"20.00"}
ParseFloat(s) == CASE s = "20.00" -> 2000

(***************************************************************************)
(* pydantic_model.py                                                       *)
(***************************************************************************)
LineItemFields == {"description", "quantity", "price"}

\* LineItem(**d): every field is required; description is text, quantity and
\* price are numbers.
LineItemValid(d) ==
    /\ LineItemFields \subseteq DOMAIN d
    /\ IsStr(d["description"])
    /\ IsNum(d["quantity"])
    /\ IsNum(d["price"]) \/ (IsStr(d["price"]) /\ d["price"].str \in NumericStrings)

Coerce(v) == IF IsStr(v) THEN [num |-> ParseFloat(v.str)] ELSE v

LineItem(d) ==
    [f \in LineItemFields |-> IF f = "price" THEN Coerce(d[f]) ELSE d[f]]

RequiredFields == {"vendor_name", "transaction_date", "total_amount", "line_items"}
ReceiptFields == RequiredFields \cup {"category"}

\* Whether Receipt(**d) validates: the four required fields are present and of
\* their types (a numeric string is accepted for a float), category is optional
\* text.  Keys that are no field of the model are ignored.
ReceiptValid(d) ==
    /\ RequiredFields \subseteq DOMAIN d
    /\ IsStr(d["vendor_name"])
    /\ IsStr(d["transaction_date"])
    /\ \/ IsNum(d["total_amount"])
       \/ IsStr(d["total_amount"]) /\ d["total_amount"].str \in NumericStrings
    /\ IsList(d["line_items"])
    /\ \A i \in DOMAIN d["line_items"].list : LineItemValid(d["line_items"].list[i])
    /\ "category" \in DOMAIN d => (IsStr(d["category"]) \/ IsNull(d["category"]))

\* The Receipt object built from a valid dict: all five fields, total_amount as
\* a number, category None when it was not given.
Receipt(d) ==
    [f \in ReceiptFields |->
        CASE f = "total_amount" -> Coerce(d[f])
          [] f = "line_items" ->
                [list |-> [i \in DOMAIN d[f].list |-> LineItem(d[f].list[i])]]
          [] f = "category" -> IF f \in DOMAIN d THEN d[f] ELSE Null
          [] OTHER -> d[f]]

\* model_dump(exclude_none=True): the fields that are not None.
ModelDump(obj) ==
    [f \in {g \in DOMAIN obj : ~IsNull(obj[g])} |-> obj[f]]

(***************************************************************************)
(* agent.py: the three agents and the orchestrator                         *)
(***************************************************************************)
\* Mutant: the classifier listed before the extractor.
sub_agents_swapped ==
    <<"category_classifier_agent", "ocr_extractor_agent", "finance_logger_agent">>

\* root_agent.sub_agents, in the order the SequentialAgent runs them.
sub_agents ==
    <<"ocr_extractor_agent", "category_classifier_agent", "finance_logger_agent">>

\* The run state the orchestrator is in while the given agent runs.
StageState(agent) ==
    CASE agent = "ocr_extractor_agent" -> "Extracting"
      [] agent = "category_classifier_agent" -> "Classifying"
      [] agent = "finance_logger_agent" -> "Persisting"

\* output_key of ocr_extractor_agent and of category_classifier_agent.
ExtractKey == "extracted_receipt"
ClassifyKey == "classified_category"

\* ClassificationOutput(**d): category is required text.
ClassificationOutputValid(d) == "category" \in DOMAIN d /\ IsStr(d["category"])

Milk == [description |-> [str |-> "Milk"], quantity |-> [num |-> 2],
         price |-> [num |-> 350]]
Bread == [description |-> [str |-> "Bread"], quantity |-> [num |-> 1],
          price |-> [str |-> "20.00"]]

\* What the extraction capability may answer for the image of run r: one
\* answer that conforms to Receipt and one that does not.  The images differ:
\* an odd run's good answer is a grocery receipt and its bad one lacks
\* total_amount; an even run's good answer gives the amount as a numeric
\* string and carries a category of its own, and its bad one has a number for
\* vendor_name.
GoodReceipt(r) ==
    [vendor_name |-> [str |-> "SuperMart"], transaction_date |-> [str |-> "2024-01-15"],
     total_amount |-> [num |-> 4530 + r], line_items |-> [list |-> <<Milk, Bread>>]]
LaxReceipt(r) ==
    [vendor_name |-> [str |-> "ShellGas"], transaction_date |-> [str |-> "2024-02-01"],
     total_amount |-> [str |-> "20.00"],
     line_items |-> [list |-> <<[Milk EXCEPT !["quantity"] = [num |-> r]]>>],
     category |-> [str |-> "Other"]]
NoTotalReceipt(r) ==
    [vendor_name |-> [str |-> "SuperMart"], transaction_date |-> [str |-> "2024-01-15"],
     line_items |-> [list |-> <<Milk>>]]
BadVendorReceipt(r) ==
    [vendor_name |-> [num |-> r], transaction_date |-> [str |-> "2024-02-01"],
     total_amount |-> [num |-> 4530 + r], line_items |-> [list |-> <<>>]]
ExtractOutputs(r) ==
    IF r % 2 = 1 THEN {GoodReceipt(r), NoTotalReceipt(r)}
    ELSE {LaxReceipt(r), BadVendorReceipt(r)}

\* What the classification capability may answer for the receipt of run r: a
\* label (Groceries for an odd run's receipt, Fuel for an even run's), or an
\* object without category.
LabelOf(r) == IF r % 2 = 1 THEN "Groceries" ELSE "Fuel"
ClassifyOutputs(r) == {[category |-> [str |-> LabelOf(r)]], EmptyDict}

\* The argument finance_logger_agent passes to the tool, as its instruction
\* directs: the receipt under extracted_receipt with the category under
\* classified_category.
ToolArg(st) ==
    LET base == IF ExtractKey \in DOMAIN st THEN st[ExtractKey] ELSE EmptyDict
    IN  IF ClassifyKey \in DOMAIN st /\ "category" \in DOMAIN st[ClassifyKey]
        THEN [f \in DOMAIN base \cup {"category"} |->
                 IF f = "category" THEN st[ClassifyKey]["category"] ELSE base[f]]
        ELSE base

(***************************************************************************)
(* tools.py: constants of log_expense_to_bigquery                          *)
(***************************************************************************)
dataset_id == "finance_data"
table_id == "expenses"

\* The schema the tool creates the table with.
schema ==
    << [name |-> "vendor_name", type |-> "STRING", mode |-> "REQUIRED"],
       [name |-> "transaction_date", type |-> "DATE", mode |-> "REQUIRED"],
       [name |-> "total_amount", type |-> "FLOAT", mode |-> "REQUIRED"],
       [name |-> "category", type |-> "STRING", mode |-> "REQUIRED"],
       [name |-> "line_items", type |-> "STRING", mode |-> "NULLABLE"] >>

\* Mutant: the price of an item is left out of the blob.
DumpItemNoPrice(it) ==
    << [tok |-> "{"],
       [key |-> "description"], it["description"],
       [key |-> "quantity"], it["quantity"],
       [tok |-> "}"] >>

\* json.dumps of one dumped LineItem, as tokens.
DumpItem(it) ==
    << [tok |-> "{"],
       [key |-> "description"], it["description"],
       [key |-> "quantity"], it["quantity"],
       [key |-> "price"], it["price"],
       [tok |-> "}"] >>

RECURSIVE DumpItems(_)
DumpItems(items) ==
    IF items = <<>> THEN <<>>
    ELSE DumpItem(Head(items)) \o DumpItems(Tail(items))

\* json.dumps([item.model_dump() for item in receipt_obj.line_items])
json_dumps(items) == << [tok |-> "["] >> \o DumpItems(items) \o << [tok |-> "]"] >>

\* Mutant: the category column filled from the wrong field.
row_to_insert_wrong_field(obj) ==
    [vendor_name |-> obj["vendor_name"],
     transaction_date |-> obj["transaction_date"],
     total_amount |-> obj["total_amount"],
     category |-> obj["vendor_name"],
     line_items |-> json_dumps(obj["line_items"].list)]

\* The row the tool builds from the validated receipt.
row_to_insert(obj) ==
    [vendor_name |-> obj["vendor_name"],
     transaction_date |-> obj["transaction_date"],
     total_amount |-> obj["total_amount"],
     category |-> obj["category"],
     line_items |-> json_dumps(obj["line_items"].list)]

Success == [status |-> "success", record_id |-> "simulated_id_12345"]
Error(msg) == [status |-> "error", message |-> msg]
NoResult == [status |-> "none"]

(***************************************************************************)
(* State                                                                   *)
(***************************************************************************)
VARIABLES
    invoked,      \* per run: the agents the invocation runs, in order
    status,       \* per run: "Pending", "Running", "Completed" or "Failed"
    idx,          \* per run: position in invoked of the agent that runs
    started,      \* per run: the agents started so far, in order
    finished,     \* per run: the agents that ran to completion
    fault,        \* per run: the exception that ended the run, or "none"
    state,        \* per session: the session state, a dict from output_key to value
    ocr_output,   \* per run: the answers of the extraction capability
    cls_output,   \* per run: the answers of the classification capability
    tpc,          \* per run: where the tool invocation stands
    receipt,      \* per run: the tool's receipt parameter
    receipt_obj,  \* per run: the validated Receipt of the tool
    result,       \* per run: what the tool returned
    calls,        \* per run: the data-store client calls made, with outcomes
    submitted,    \* per run: the rows passed to insert_rows_json
    provisioned,  \* per run: whether dataset and table existed at the tool's start
    datasets,     \* the store: the ids of the datasets that exist
    tables,       \* the store: a dict from the ids of the tables to their schema
    rows          \* the store: the rows inserted, each with the run that did it

vars == <<invoked, status, idx, started, finished, fault, state, ocr_output,
          cls_output, tpc, receipt, receipt_obj, result, calls, submitted,
          provisioned, datasets, tables, rows>>

\* Mutant: every run on one and the same session.
SharedSession(r) == 1

\* The session a run works on: the agents keep no data of their own, and every
\* run is given a session of its own.
Session(r) == r

Agent(r) == invoked[r][idx[r]]

Running(r, agent) == status[r] = "Running" /\ Agent(r) = agent

\* The run state of the pipeline, as the orchestrator's position gives it.
RunState(r) == IF status[r] = "Running" THEN StageState(Agent(r)) ELSE status[r]

\* Nothing has run yet: fresh sessions, no tool invocation.
Fresh ==
    /\ finished = [r \in Runs |-> {}]
    /\ fault = [r \in Runs |-> "none"]
    /\ ocr_output = [r \in Runs |-> <<>>]
    /\ cls_output = [r \in Runs |-> <<>>]
    /\ tpc = [r \in Runs |-> "idle"]
    /\ receipt = [r \in Runs |-> EmptyDict]
    /\ receipt_obj = [r \in Runs |-> EmptyDict]
    /\ result = [r \in Runs |-> NoResult]
    /\ calls = [r \in Runs |-> <<>>]
    /\ submitted = [r \in Runs |-> <<>>]
    /\ provisioned = [r \in Runs |-> FALSE]
    /\ rows = {}

\* Every run is an invocation of root_agent on a fresh session; the store
\* holds nothing yet.
Init ==
    /\ invoked = [r \in Runs |-> sub_agents]
    /\ status = [r \in Runs |-> "Pending"]
    /\ idx = [r \in Runs |-> 0]
    /\ started = [r \in Runs |-> <<>>]
    /\ state = [r \in Runs |-> EmptyDict]
    /\ Fresh
    /\ datasets = {}
    /\ tables = EmptyDict

(***************************************************************************)
(* The orchestrator: SequentialAgent over sub_agents                       *)
(***************************************************************************)
\* The run outcome once the last agent has answered: the logger reports the
\* status the tool returned.
Outcome(res) == IF res.status = "error" THEN "Failed" ELSE "Completed"

\* Mutant: the orchestrator goes straight to its last agent.
AdvanceSkips(r) ==
    /\ finished' = [finished EXCEPT ![r] = @ \cup {Agent(r)}]
    /\ IF idx[r] < Len(invoked[r])
       THEN /\ idx' = [idx EXCEPT ![r] = Len(invoked[r])]
            /\ started' = [started EXCEPT ![r] = Append(@, invoked[r][Len(invoked[r])])]
            /\ UNCHANGED status
       ELSE /\ status' = [status EXCEPT ![r] = Outcome(result[r])]
            /\ UNCHANGED <<idx, started>>
    /\ UNCHANGED <<invoked, fault>>

\* The running agent of r has completed: the next agent is started, or the run
\* ends.
Advance(r) ==
    /\ finished' = [finished EXCEPT ![r] = @ \cup {Agent(r)}]
    /\ IF idx[r] < Len(invoked[r])
       THEN /\ idx' = [idx EXCEPT ![r] = @ + 1]
            /\ started' = [started EXCEPT ![r] = Append(@, invoked[r][idx[r] + 1])]
            /\ UNCHANGED status
       ELSE /\ status' = [status EXCEPT ![r] = Outcome(result[r])]
            /\ UNCHANGED <<idx, started>>
    /\ UNCHANGED <<invoked, fault>>

\* An exception leaves the running agent of r: no later agent runs.
Raise(r, exc) ==
    /\ status' = [status EXCEPT ![r] = "Failed"]
    /\ fault' = [fault EXCEPT ![r] = exc]
    /\ UNCHANGED <<invoked, idx, started, finished>>

\* Mutant: saving a value replaces the session state by the one key.
SaveReplacing(r, key, value) ==
    state' = [state EXCEPT ![Session(r)] = [k \in {key} |-> value]]

\* The session state of r with value saved under key.
Save(r, key, value) ==
    state' = [state EXCEPT ![Session(r)] =
                 [k \in DOMAIN @ \cup {key} |-> IF k = key THEN value ELSE @[k]]]

\* A run begins: the first agent of sub_agents is started.
StartRun(r) ==
    /\ status[r] = "Pending"
    /\ status' = [status EXCEPT ![r] = "Running"]
    /\ idx' = [idx EXCEPT ![r] = 1]
    /\ started' = [started EXCEPT ![r] = <<invoked[r][1]>>]
    /\ UNCHANGED <<invoked, finished, fault, state, ocr_output, cls_output,
                   tpc, receipt, receipt_obj, result, calls, submitted,
                   provisioned, datasets, tables, rows>>

\* Mutant: the extractor without output_schema, its answer saved as it comes.
ExtractReturnUnchecked(r) ==
    /\ Running(r, "ocr_extractor_agent")
    /\ \E out \in ExtractOutputs(r) :
          /\ ocr_output' = [ocr_output EXCEPT ![r] = Append(@, out)]
          /\ Save(r, ExtractKey, out)
          /\ Advance(r)
    /\ UNCHANGED <<cls_output, tpc, receipt, receipt_obj, result, calls,
                   submitted, provisioned, datasets, tables, rows>>

\* ocr_extractor_agent answers: the answer is validated against Receipt
\* (output_schema) and saved under extracted_receipt (output_key).
ExtractReturn(r) ==
    /\ Running(r, "ocr_extractor_agent")
    /\ \E out \in ExtractOutputs(r) :
          /\ ocr_output' = [ocr_output EXCEPT ![r] = Append(@, out)]
          /\ IF ReceiptValid(out)
             THEN /\ Save(r, ExtractKey, ModelDump(Receipt(out)))
                  /\ Advance(r)
             ELSE /\ Raise(r, "ValidationError")
                  /\ UNCHANGED state
    /\ UNCHANGED <<cls_output, tpc, receipt, receipt_obj, result, calls,
                   submitted, provisioned, datasets, tables, rows>>

\* category_classifier_agent answers: the answer is validated against
\* ClassificationOutput and saved under classified_category.  The agent reads
\* extracted_receipt only through its prompt: it checks nothing before it runs.
ClassifyReturn(r) ==
    /\ Running(r, "category_classifier_agent")
    /\ \E out \in ClassifyOutputs(r) :
          /\ cls_output' = [cls_output EXCEPT ![r] = Append(@, out)]
          /\ IF ClassificationOutputValid(out)
             THEN /\ Save(r, ClassifyKey, out)
                  /\ Advance(r)
             ELSE /\ Raise(r, "ValidationError")
                  /\ UNCHANGED state
    /\ UNCHANGED <<ocr_output, tpc, receipt, receipt_obj, result, calls,
                   submitted, provisioned, datasets, tables, rows>>

(***************************************************************************)
(* The data-store client, as log_expense_to_bigquery uses it               *)
(***************************************************************************)
\* get_dataset / get_table: the object is returned when it exists, unless the
\* call fails for another reason; NotFound is raised when it does not exist.
GetOutcomes(exists) == IF exists THEN {"found", "fault"} ELSE {"notfound"}

\* create_dataset / create_table (no exists_ok): Conflict is raised when the
\* object exists already; otherwise it is created, unless the call fails.
CreateOutcomes(exists) == IF exists THEN {"conflict"} ELSE {"created", "fault"}

\* Whether the store takes the row: a REQUIRED column may not be null.
RowAccepted(row, sch) ==
    \A i \in DOMAIN sch :
        sch[i].mode = "REQUIRED" => ~IsNull(row[sch[i].name])

\* insert_rows_json: an empty error list, a non-empty one, or an exception.
InsertOutcomes(row, sch) ==
    IF RowAccepted(row, sch) THEN {"ok", "errors", "fault"} ELSE {"errors", "fault"}

\* str(e) of the exception a client call raised, str(errors) of an error list.
ExcMessage(out) ==
    CASE out = "conflict" -> "409 Already Exists"
      [] out = "credentials" -> "DefaultCredentialsError"
      [] out = "errors" -> "[{'index': 0, 'errors': [...]}]"
      [] OTHER -> "503 Service Unavailable"

Call(r, op, out) == calls' = [calls EXCEPT ![r] = Append(@, [op |-> op, out |-> out])]

(***************************************************************************)
(* tools.py: log_expense_to_bigquery, one action per client call           *)
(***************************************************************************)
\* The tool goes on to its next statement.
Continue(r, next) ==
    /\ tpc' = [tpc EXCEPT ![r] = next]
    /\ UNCHANGED <<result, status, fault>>

\* The tool returns res to the agent.
Return(r, res) ==
    /\ result' = [result EXCEPT ![r] = res]
    /\ tpc' = [tpc EXCEPT ![r] = "returned"]
    /\ UNCHANGED <<status, fault>>

\* Mutant: no outer handler, the exception leaves the tool and the agent.
OuterExceptMissing(r, out) ==
    /\ tpc' = [tpc EXCEPT ![r] = "raised"]
    /\ status' = [status EXCEPT ![r] = "Failed"]
    /\ fault' = [fault EXCEPT ![r] = ExcMessage(out)]
    /\ UNCHANGED result

\* The outer handler: an exception raised anywhere in the tool is returned as
\* an error.
OuterExcept(r, out) == Return(r, Error(ExcMessage(out)))

\* Mutant: the error list of the insert is not looked at.
InsertResultIgnoresErrors(out) == Success

\* The tool's answer to what insert_rows_json returned.
InsertResult(out) == IF out = "ok" THEN Success ELSE Error(ExcMessage(out))

\* Mutant: the parameter is not re-validated, the tool goes on with it.
ToolStartUnvalidated(r) ==
    /\ Running(r, "finance_logger_agent")
    /\ tpc[r] = "idle"
    /\ receipt' = [receipt EXCEPT ![r] = ToolArg(state[Session(r)])]
    /\ provisioned' = [provisioned EXCEPT ![r] =
            dataset_id \in datasets /\ table_id \in DOMAIN tables]
    /\ receipt_obj' = [receipt_obj EXCEPT ![r] =
            IF ReceiptValid(receipt'[r]) THEN Receipt(receipt'[r]) ELSE @]
    /\ Continue(r, "get_dataset")
    /\ UNCHANGED <<invoked, idx, started, finished, state, ocr_output,
                   cls_output, calls, submitted, datasets, tables, rows>>

\* finance_logger_agent calls the tool.  The tool re-validates its parameter
\* and builds the client; a failure of either is returned as an error.
ToolStart(r) ==
    /\ Running(r, "finance_logger_agent")
    /\ tpc[r] = "idle"
    /\ receipt' = [receipt EXCEPT ![r] = ToolArg(state[Session(r)])]
    /\ provisioned' = [provisioned EXCEPT ![r] =
            dataset_id \in datasets /\ table_id \in DOMAIN tables]
    /\ IF ~ReceiptValid(receipt'[r])
       THEN /\ Return(r, Error("Invalid receipt data structure: validation error"))
            /\ UNCHANGED receipt_obj
       ELSE /\ receipt_obj' = [receipt_obj EXCEPT ![r] = Receipt(receipt'[r])]
            /\ \E ok \in BOOLEAN :
                  IF ok THEN Continue(r, "get_dataset")
                  ELSE OuterExcept(r, "credentials")
    /\ UNCHANGED <<invoked, idx, started, finished, state, ocr_output,
                   cls_output, calls, submitted, datasets, tables, rows>>

\* Mutant: the dataset is looked up but never created.
GetDatasetSkipsCreate(r) ==
    /\ tpc[r] = "get_dataset"
    /\ \E out \in GetOutcomes(dataset_id \in datasets) :
          /\ Call(r, "get_dataset", out)
          /\ Continue(r, "get_table")
    /\ UNCHANGED <<invoked, idx, started, finished, state, ocr_output,
                   cls_output, receipt, receipt_obj, submitted, provisioned,
                   datasets, tables, rows>>

\* client.get_dataset(dataset_ref); any exception leads to the creation.
GetDataset(r) ==
    /\ tpc[r] = "get_dataset"
    /\ \E out \in GetOutcomes(dataset_id \in datasets) :
          /\ Call(r, "get_dataset", out)
          /\ Continue(r, IF out = "found" THEN "get_table" ELSE "create_dataset")
    /\ UNCHANGED <<invoked, idx, started, finished, state, ocr_output,
                   cls_output, receipt, receipt_obj, submitted, provisioned,
                   datasets, tables, rows>>

\* Mutant: a failed creation of the dataset is passed over.
CreateDatasetIgnoresFailure(r) ==
    /\ tpc[r] = "create_dataset"
    /\ \E out \in CreateOutcomes(dataset_id \in datasets) :
          /\ Call(r, "create_dataset", out)
          /\ datasets' = IF out = "created" THEN datasets \cup {dataset_id}
                         ELSE datasets
          /\ Continue(r, "get_table")
    /\ UNCHANGED <<invoked, idx, started, finished, state, ocr_output,
                   cls_output, receipt, receipt_obj, submitted, provisioned,
                   tables, rows>>

\* client.create_dataset(dataset, timeout=30); an exception reaches the outer
\* handler.
CreateDataset(r) ==
    /\ tpc[r] = "create_dataset"
    /\ \E out \in CreateOutcomes(dataset_id \in datasets) :
          /\ Call(r, "create_dataset", out)
          /\ IF out = "created"
             THEN /\ datasets' = datasets \cup {dataset_id}
                  /\ Continue(r, "get_table")
             ELSE /\ OuterExcept(r, out)
                  /\ UNCHANGED datasets
    /\ UNCHANGED <<invoked, idx, started, finished, state, ocr_output,
                   cls_output, receipt, receipt_obj, submitted, provisioned,
                   tables, rows>>

\* Mutant: the table is created whatever the lookup says.
GetTableThenCreate(r) ==
    /\ tpc[r] = "get_table"
    /\ \E out \in GetOutcomes(table_id \in DOMAIN tables) :
          /\ Call(r, "get_table", out)
          /\ Continue(r, "create_table")
    /\ UNCHANGED <<invoked, idx, started, finished, state, ocr_output,
                   cls_output, receipt, receipt_obj, submitted, provisioned,
                   datasets, tables, rows>>

\* client.get_table(table_ref); any exception leads to the creation.
GetTable(r) ==
    /\ tpc[r] = "get_table"
    /\ \E out \in GetOutcomes(table_id \in DOMAIN tables) :
          /\ Call(r, "get_table", out)
          /\ Continue(r, IF out = "found" THEN "insert" ELSE "create_table")
    /\ UNCHANGED <<invoked, idx, started, finished, state, ocr_output,
                   cls_output, receipt, receipt_obj, submitted, provisioned,
                   datasets, tables, rows>>

\* client.create_table(table, timeout=30) with the fixed schema.
CreateTable(r) ==
    /\ tpc[r] = "create_table"
    /\ \E out \in CreateOutcomes(table_id \in DOMAIN tables) :
          /\ Call(r, "create_table", out)
          /\ IF out = "created"
             THEN /\ tables' = [t \in DOMAIN tables \cup {table_id} |->
                                   IF t = table_id THEN schema ELSE tables[t]]
                  /\ Continue(r, "insert")
             ELSE /\ OuterExcept(r, out)
                  /\ UNCHANGED tables
    /\ UNCHANGED <<invoked, idx, started, finished, state, ocr_output,
                   cls_output, receipt, receipt_obj, submitted, provisioned,
                   datasets, rows>>

\* Mutant: an insert that the store answers with errors is made again.
InsertRowsRetries(r) ==
    /\ tpc[r] = "insert"
    /\ LET row == row_to_insert(receipt_obj[r])
       IN  \E out \in InsertOutcomes(row, tables[table_id]) :
              /\ Call(r, "insert_rows_json", out)
              /\ submitted' = [submitted EXCEPT ![r] = Append(@, row)]
              /\ rows' = IF out = "ok" THEN rows \cup {[by |-> r, row |-> row]}
                         ELSE rows
              /\ CASE out = "fault" -> OuterExcept(r, out)
                   [] out = "errors" -> UNCHANGED <<tpc, result, status, fault>>
                   [] OTHER -> Return(r, InsertResult(out))
    /\ UNCHANGED <<invoked, idx, started, finished, state, ocr_output, cls_output,
                   receipt, receipt_obj, provisioned, datasets, tables>>

\* The row is built and client.insert_rows_json(table_ref, [row]) is called;
\* the tool returns success on an empty error list, an error otherwise.
InsertRows(r) ==
    /\ tpc[r] = "insert"
    /\ LET row == row_to_insert(receipt_obj[r])
       IN  \E out \in InsertOutcomes(row, tables[table_id]) :
              /\ Call(r, "insert_rows_json", out)
              /\ submitted' = [submitted EXCEPT ![r] = Append(@, row)]
              /\ rows' = IF out = "ok" THEN rows \cup {[by |-> r, row |-> row]}
                         ELSE rows
              /\ IF out = "fault" THEN OuterExcept(r, out)
                 ELSE Return(r, InsertResult(out))
    /\ UNCHANGED <<invoked, idx, started, finished, state, ocr_output, cls_output,
                   receipt, receipt_obj, provisioned, datasets, tables>>

\* Mutant: the logger only answers once the tool has returned success.
LoggerAwaitsSuccess(r) ==
    /\ Running(r, "finance_logger_agent")
    /\ tpc[r] = "returned"
    /\ result[r].status = "success"
    /\ Advance(r)
    /\ tpc' = [tpc EXCEPT ![r] = "done"]
    /\ UNCHANGED <<state, ocr_output, cls_output, receipt, receipt_obj, result,
                   calls, submitted, provisioned, datasets, tables, rows>>

\* finance_logger_agent answers with the status the tool returned and
\* completes.
LoggerRespond(r) ==
    /\ Running(r, "finance_logger_agent")
    /\ tpc[r] = "returned"
    /\ Advance(r)
    /\ tpc' = [tpc EXCEPT ![r] = "done"]
    /\ UNCHANGED <<state, ocr_output, cls_output, receipt, receipt_obj, result,
                   calls, submitted, provisioned, datasets, tables, rows>>

(***************************************************************************)
(* Specifications                                                          *)
(***************************************************************************)
\* NumRuns pipeline runs, interleaved at the agents' answers and at the
\* client calls of the tool.
Next ==
    \E r \in Runs :
        \/ StartRun(r)
        \/ ExtractReturn(r)
        \/ ClassifyReturn(r)
        \/ ToolStart(r)
        \/ GetDataset(r)
        \/ CreateDataset(r)
        \/ GetTable(r)
        \/ CreateTable(r)
        \/ InsertRows(r)
        \/ LoggerRespond(r)

Spec == Init /\ [][Next]_vars

\* A step of a started run: an answer of an agent's model or the return of a
\* client call.
RunStep(r) ==
    \/ ExtractReturn(r)
    \/ ClassifyReturn(r)
    \/ ToolStart(r)
    \/ GetDataset(r)
    \/ CreateDataset(r)
    \/ GetTable(r)
    \/ CreateTable(r)
    \/ InsertRows(r)
    \/ LoggerRespond(r)

\* The pipeline runs when every external call of a started run eventually
\* returns.
FairSpec == Init /\ [][Next]_vars /\ \A r \in Runs : WF_vars(RunStep(r))

\* One agent invoked on its own, on a session state its caller prepared: the
\* extractor on an empty one, the classifier with or without a receipt, the
\* logger on any.
EmptyReceipt(r) ==
    [vendor_name |-> [str |-> "Kiosk"], transaction_date |-> [str |-> "2024-03-01"],
     total_amount |-> [num |-> r], line_items |-> [list |-> <<>>]]

PreparedReceipts ==
    {ModelDump(Receipt(GoodReceipt(1))), ModelDump(Receipt(LaxReceipt(1))),
     ModelDump(Receipt(EmptyReceipt(1))), NoTotalReceipt(1)}

PreparedStates(agent) ==
    LET withReceipt == {[k \in {ExtractKey} |-> rc] : rc \in PreparedReceipts}
        label == [category |-> [str |-> "Groceries"]]
        withBoth == {[k \in {ExtractKey, ClassifyKey} |->
                         IF k = ExtractKey THEN rc ELSE label] :
                     rc \in PreparedReceipts}
    IN  CASE agent = "ocr_extractor_agent" -> {EmptyDict}
          [] agent = "category_classifier_agent" -> {EmptyDict} \cup withReceipt
          [] OTHER -> {EmptyDict, [k \in {ClassifyKey} |-> label]}
                         \cup withReceipt \cup withBoth

\* The store as earlier invocations may have left it.
PreparedStores ==
    { <<{}, EmptyDict>>,
      <<{dataset_id}, EmptyDict>>,
      <<{dataset_id}, [t \in {table_id} |-> schema]>> }

StageInit ==
    /\ \E k \in DOMAIN sub_agents :
          /\ invoked = [r \in Runs |-> <<sub_agents[k]>>]
          /\ \E st \in PreparedStates(sub_agents[k]) :
                state = [r \in Runs |-> IF r = 1 THEN st ELSE EmptyDict]
    /\ status = [r \in Runs |-> IF r = 1 THEN "Running" ELSE "Pending"]
    /\ idx = [r \in Runs |-> IF r = 1 THEN 1 ELSE 0]
    /\ started = [r \in Runs |-> IF r = 1 THEN <<invoked[r][1]>> ELSE <<>>]
    /\ Fresh
    /\ \E store \in PreparedStores :
          /\ datasets = store[1]
          /\ tables = store[2]

StageNext ==
    \/ ExtractReturn(1)
    \/ ClassifyReturn(1)
    \/ ToolStart(1)
    \/ GetDataset(1)
    \/ CreateDataset(1)
    \/ GetTable(1)
    \/ CreateTable(1)
    \/ InsertRows(1)
    \/ LoggerRespond(1)

StageSpec == StageInit /\ [][StageNext]_vars

(***************************************************************************)
(* Properties                                                              *)
(***************************************************************************)
Range(seq) == {seq[i] : i \in DOMAIN seq}

\* The order of the stages that the specification of the pipeline fixes.
StageOrder ==
    <<"ocr_extractor_agent", "category_classifier_agent", "finance_logger_agent">>

Ended(r) == status[r] \in {"Completed", "Failed"}

\* The tool of r was called and has not returned yet / has returned.
ToolReturned(r) == tpc[r] \in {"returned", "done"}

\* C1: in every pipeline run the stages start in the order Extraction,
\* Classification, Persistence: each is started only once the one before it
\* has completed, and a run that completes has run all three.
C1_FixedStageOrder ==
    \A r \in Runs :
        /\ Len(started[r]) <= Len(StageOrder)
        /\ \A k \in DOMAIN started[r] :
              /\ started[r][k] = StageOrder[k]
              /\ k > 1 => StageOrder[k - 1] \in finished[r]
        /\ tpc[r] # "idle" => "category_classifier_agent" \in finished[r]
        /\ status[r] = "Completed" =>
              /\ started[r] = StageOrder
              /\ finished[r] = Range(StageOrder)

C1_Witness ==
    \E r \in Runs :
        /\ status[r] = "Completed"
        /\ started[r] = StageOrder
        /\ result[r] = Success

\* C2: when the extraction capability answers with data that Receipt rejects,
\* the run halts in Failed at the extraction stage: nothing is saved under
\* extracted_receipt, neither the classifier nor the logger (and its tool) is
\* started, and the run inserts no row.
C2_BadExtractionHalts ==
    \A r \in Runs :
        (ocr_output[r] # <<>> /\ ~ReceiptValid(ocr_output[r][1])) =>
            /\ RunState(r) = "Failed"
            /\ ExtractKey \notin DOMAIN state[Session(r)]
            /\ started[r] = <<"ocr_extractor_agent">>
            /\ tpc[r] = "idle"
            /\ calls[r] = <<>>
            /\ \A x \in rows : x.by # r

C2_Witness ==
    /\ ocr_output[1] = <<NoTotalReceipt(1)>>
    /\ ocr_output[2] = <<BadVendorReceipt(2)>>
    /\ status[1] = "Failed"
    /\ status[2] = "Failed"

LastCall(r) == calls[r][Len(calls[r])]

Structured(res) ==
    \/ res.status = "success" /\ DOMAIN res = {"status", "record_id"}
    \/ res.status = "error" /\ DOMAIN res = {"status", "message"}

\* A client call of r raised an exception that no inner handler takes.
ClientRaised(r) ==
    /\ calls[r] # <<>>
    /\ \/ LastCall(r).out = "conflict"
       \/ LastCall(r).out = "fault" /\ LastCall(r).op \notin {"get_dataset", "get_table"}

\* C3: log_expense_to_bigquery never raises: whatever its input and whichever
\* client call fails, no exception leaves the tool, and what it returns is
\* {status: "success", record_id} or {status: "error", message}; an input that
\* Receipt rejects and an exception of a client call both end in an error result.
C3_ToolNeverRaises ==
    \A r \in Runs :
        tpc[r] # "idle" =>
            /\ fault[r] = "none"
            /\ tpc[r] \in {"get_dataset", "create_dataset", "get_table",
                           "create_table", "insert", "returned", "done"}
            /\ ToolReturned(r) <=> result[r] # NoResult
            /\ ToolReturned(r) => Structured(result[r])
            /\ ~ReceiptValid(receipt[r]) => ToolReturned(r) /\ result[r].status = "error"
            /\ ClientRaised(r) => ToolReturned(r) /\ result[r].status = "error"

C3_Witness ==
    \E r \in Runs :
        /\ ClientRaised(r)
        /\ LastCall(r) = [op |-> "create_table", out |-> "conflict"]
        /\ status[r] = "Failed"

\* The insert of r returned a non-empty error list.
InsertErrors(r) ==
    /\ calls[r] # <<>>
    /\ LastCall(r) = [op |-> "insert_rows_json", out |-> "errors"]

\* C4: when insert_rows_json returns a non-empty error list, the tool returns
\* {status: "error", message} with a non-empty message, no exception ends the
\* run, and the run ends in Failed.
C4_InsertErrorsStructured ==
    \A r \in Runs :
        InsertErrors(r) =>
            /\ ToolReturned(r)
            /\ result[r].status = "error"
            /\ DOMAIN result[r] = {"status", "message"}
            /\ result[r].message # ""
            /\ fault[r] = "none"
            /\ RunState(r) \in {"Persisting", "Failed"}
            /\ tpc[r] = "done" => RunState(r) = "Failed"

C4_Witness ==
    \E r \in Runs :
        /\ InsertErrors(r)
        /\ RowAccepted(row_to_insert(receipt_obj[r]), schema)
        /\ status[r] = "Failed"
        /\ fault[r] = "none"

\* Run r saw the dataset or the table as absent and its create call then found
\* it there: another run created it in between.
RaceLost(r) ==
    \E k \in DOMAIN calls[r] :
        /\ k > 1
        /\ calls[r][k].out = "conflict"
        /\ calls[r][k - 1].out = "notfound"

\* C5: a run that loses the race of a first-time creation treats "already
\* exists" as success: it does not return an error.
C5_ConcurrentCreationSafe ==
    \A r \in Runs : RaceLost(r) => result[r].status # "error"

\* Both lookups of r, as far as made, were answered by the store.
LookupsAnswered(r) ==
    \A k \in DOMAIN calls[r] :
        calls[r][k].op \in {"get_dataset", "get_table"} => calls[r][k].out # "fault"

FiveColumns ==
    <<"vendor_name", "transaction_date", "total_amount", "category", "line_items">>

\* C6: provisioning is idempotent.  An invocation that starts when dataset and
\* table exist already, and whose lookups the store answers, finds both: it
\* makes no create call, goes from the two lookups to the insert without an
\* error, and the table keeps the fixed five-column schema.
C6_ProvisioningIdempotent ==
    \A r \in Runs :
        (provisioned[r] /\ LookupsAnswered(r)) =>
            /\ \A k \in DOMAIN calls[r] :
                  calls[r][k].op \notin {"create_dataset", "create_table"}
            /\ Len(calls[r]) >= 1 => calls[r][1] = [op |-> "get_dataset", out |-> "found"]
            /\ Len(calls[r]) >= 2 => calls[r][2] = [op |-> "get_table", out |-> "found"]
            /\ Len(calls[r]) >= 3 => calls[r][3].op = "insert_rows_json"
            /\ (ToolReturned(r) /\ calls[r] # <<>>) => Len(calls[r]) = 3
            /\ dataset_id \in datasets
            /\ table_id \in DOMAIN tables
            /\ tables[table_id] = schema
            /\ [i \in DOMAIN tables[table_id] |-> tables[table_id][i].name] = FiveColumns

C6_Witness ==
    \E r \in Runs :
        /\ provisioned[r]
        /\ Len(calls[r]) = 3
        /\ LookupsAnswered(r)
        /\ result[r] = Success

Transitions ==
    { <<"Pending", "Extracting">>, <<"Extracting", "Classifying">>,
      <<"Classifying", "Persisting">>, <<"Persisting", "Completed">>,
      <<"Extracting", "Failed">>, <<"Classifying", "Failed">>,
      <<"Persisting", "Failed">> }

\* C8: the run state moves only along Pending, Extracting, Classifying,
\* Persisting, Completed, or from one of the three stages to Failed; a run that
\* is Completed or Failed stays so, starts no stage and makes no tool call.
C8_RunStateMachine ==
    [][\A r \in Runs :
          /\ RunState(r)' # RunState(r) => <<RunState(r), RunState(r)'>> \in Transitions
          /\ Ended(r) =>
                /\ status'[r] = status[r]
                /\ started'[r] = started[r]
                /\ tpc'[r] = tpc[r]
                /\ calls'[r] = calls[r]
                /\ state'[Session(r)] = state[Session(r)]]_vars

C8_Witness ==
    \E a, b \in Runs :
        /\ status[a] = "Failed"
        /\ started[a] = <<"ocr_extractor_agent", "category_classifier_agent">>
        /\ status[b] = "Failed"
        /\ started[b] = StageOrder
        /\ tpc[b] = "done"

\* The session state a run's own capabilities' answers amount to.
OwnState(r) ==
    [k \in {ExtractKey, ClassifyKey} |->
        IF k = ExtractKey THEN ModelDump(Receipt(ocr_output[r][1]))
        ELSE cls_output[r][1]]

C10_ClassifierChecksInput ==
    \A r \in Runs :
        ( /\ "category_classifier_agent" \in Range(started[r])
          /\ ExtractKey \notin DOMAIN state[Session(r)]
          /\ ~Running(r, "category_classifier_agent") ) =>
            /\ status[r] = "Failed"
            /\ ClassifyKey \notin DOMAIN state[Session(r)]
            /\ "finance_logger_agent" \notin Range(started[r])

\* Decoding of a blob: json.loads on the tokens json.dumps wrote.
IsJsonArray(toks) ==
    /\ Len(toks) >= 2
    /\ toks[1] = [tok |-> "["]
    /\ toks[Len(toks)] = [tok |-> "]"]
    /\ (Len(toks) - 2) % 8 = 0
    /\ \A i \in 2..(Len(toks) - 1) :
          CASE (i - 2) % 8 = 0 -> toks[i] = [tok |-> "{"]
            [] (i - 2) % 8 = 7 -> toks[i] = [tok |-> "}"]
            [] (i - 2) % 8 \in {1, 3, 5} -> DOMAIN toks[i] = {"key"}
            [] OTHER -> IsStr(toks[i]) \/ IsNum(toks[i])

ObjectAt(toks, i) ==
    [k \in {toks[i + 1].key, toks[i + 3].key, toks[i + 5].key} |->
        CASE k = toks[i + 1].key -> toks[i + 2]
          [] k = toks[i + 3].key -> toks[i + 4]
          [] OTHER -> toks[i + 6]]

RECURSIVE ParseObjects(_)
ParseObjects(body) ==
    IF body = <<>> THEN <<>>
    ELSE <<ObjectAt(body, 1)>> \o ParseObjects(SubSeq(body, 9, Len(body)))

json_loads(toks) == ParseObjects(SubSeq(toks, 2, Len(toks) - 1))

ValidationError == Error("Invalid receipt data structure: validation error")

ToolStarted(r) == tpc[r] # "idle"

RequiredColumns == {"vendor_name", "transaction_date", "total_amount", "category"}

\* C13: every row the tool passes to insert_rows_json has vendor_name,
\* transaction_date, total_amount and category non-null: a receipt without a
\* category is never turned into an insert attempt.
C13_RequiredColumnsPresent ==
    \A r \in Runs :
        \A k \in DOMAIN submitted[r] :
            \A c \in RequiredColumns : ~IsNull(submitted[r][k][c])

\* A creation of r failed for a reason other than the object existing.
CreateFailed(r) ==
    \E k \in DOMAIN calls[r] :
        /\ calls[r][k].op \in {"create_dataset", "create_table"}
        /\ calls[r][k].out = "fault"

\* C14: when create_dataset or create_table fails for a reason other than
\* "already exists", the failed creation is the tool's last call, the tool
\* returns an error with the message of the failure, no insert is attempted and
\* no row is added in that invocation, and the run ends in Failed.
C14_ProvisioningFailure ==
    \A r \in Runs :
        CreateFailed(r) =>
            /\ LastCall(r).out = "fault"
            /\ LastCall(r).op \in {"create_dataset", "create_table"}
            /\ ToolReturned(r)
            /\ result[r] = Error(ExcMessage("fault"))
            /\ submitted[r] = <<>>
            /\ \A k \in DOMAIN calls[r] : calls[r][k].op # "insert_rows_json"
            /\ \A w \in rows : w.by # r
            /\ RunState(r) \in {"Persisting", "Failed"}
            /\ status[r] # "Completed"
            /\ tpc[r] = "done" => status[r] = "Failed"

C14_Witness ==
    \E r \in Runs :
        /\ CreateFailed(r)
        /\ LastCall(r).op = "create_table"
        /\ dataset_id \in datasets
        /\ status[r] = "Failed"
        /\ result[r].status = "error"

\* The keys of session s that a step adds, removes or gives another value.
Written(s) ==
    {k \in DOMAIN state[s] \cup DOMAIN state'[s] :
        \/ k \notin DOMAIN state[s]
        \/ k \notin DOMAIN state'[s]
        \/ state'[s][k] # state[s][k]}

\* C15: a step of a run in Extracting writes no key but extracted_receipt, a
\* step of a run in Classifying writes no key but classified_category (so it
\* leaves extracted_receipt as it was), and no step of a run in Persisting, so
\* no step of the tool whatever it returns, writes any key; a stage that
\* completes leaves its key in the session state.
C15_StateWrittenForward ==
    [][\A r \in Runs :
          /\ Written(Session(r)) \subseteq
                CASE RunState(r) = "Extracting" -> {ExtractKey}
                  [] RunState(r) = "Classifying" -> {ClassifyKey}
                  [] OTHER -> {}
          /\ tpc'[r] # tpc[r] => Written(Session(r)) = {}
          /\ "ocr_extractor_agent" \in finished'[r] \ finished[r] =>
                ExtractKey \in DOMAIN state'[Session(r)]
          /\ "category_classifier_agent" \in finished'[r] \ finished[r] =>
                ClassifyKey \in DOMAIN state'[Session(r)]]_vars

C15_Witness ==
    \E a, b \in Runs :
        /\ tpc[a] = "done" /\ result[a].status = "error"
        /\ tpc[b] = "done" /\ result[b].status = "success"
        /\ \A r \in {a, b} :
              /\ DOMAIN state[Session(r)] = {ExtractKey, ClassifyKey}
              /\ state[Session(r)][ExtractKey] = ModelDump(Receipt(ocr_output[r][1]))
              /\ state[Session(r)][ClassifyKey] = cls_output[r][1]

\* r has made the call op with the outcome out.
Called(r, op, out) ==
    \E k \in DOMAIN calls[r] : calls[r][k] = [op |-> op, out |-> out]

\* C16: the tool returns {status: success, record_id} exactly when its last
\* call was the insert and the store answered with an empty error list.  The
\* insert is only reached with the dataset and the table in the store, each
\* found or created by this invocation, and a success means that one row, with
\* the five columns, was submitted and is in the table.
C16_SuccessMeansInserted ==
    \A r \in Runs :
        /\ (ToolReturned(r) /\ result[r].status = "success") <=>
              (calls[r] # <<>> /\ LastCall(r) = [op |-> "insert_rows_json", out |-> "ok"])
        /\ (tpc[r] = "insert" \/ submitted[r] # <<>>) =>
              /\ dataset_id \in datasets
              /\ table_id \in DOMAIN tables
              /\ Called(r, "get_dataset", "found") \/ Called(r, "create_dataset", "created")
              /\ Called(r, "get_table", "found") \/ Called(r, "create_table", "created")
        /\ result[r].status = "success" =>
              /\ result[r].record_id # ""
              /\ Len(submitted[r]) = 1
              /\ DOMAIN submitted[r][1] = Range(FiveColumns)
              /\ submitted[r][1] = row_to_insert(receipt_obj[r])
              /\ [by |-> r, row |-> submitted[r][1]] \in rows

C16_Witness ==
    \E a, b \in Runs :
        /\ result[a] = Success
        /\ Called(a, "create_dataset", "created")
        /\ Called(a, "create_table", "created")
        /\ Len(submitted[a]) = 1
        /\ ToolReturned(b)
        /\ calls[b] # <<>>
        /\ LastCall(b) = [op |-> "insert_rows_json", out |-> "errors"]
        /\ result[b].status = "error"

\* How many times op is in a sequence of calls.
Count(seq, op) == Cardinality({k \in DOMAIN seq : seq[k].op = op})

ClientOps ==
    {"get_dataset", "create_dataset", "get_table", "create_table", "insert_rows_json"}

====
